---- MODULE Spec2Model ----
(***************************************************************************)
(* A model of the voxel simulation and assignment engine                   *)
(* (src/services/VoxelEngine.ts) together with the React-side state that   *)
(* its two callbacks write (src/App.tsx).                                  *)
(*                                                                         *)
(* Numbers.  JavaScript numbers are modelled in fixed point:               *)
(*   - lengths, velocities and angles in 1/UNIT of a world unit (radian);  *)
(*   - colour channels in 1/CH of full intensity (a byte b is 2*b);        *)
(*   - colour distances in 1/(100*CH);                                     *)
(*   - times in milliseconds, delays in 1/75 of a millisecond.             *)
(* A product with a decimal factor is truncated toward zero, so that a     *)
(* decaying quantity reaches zero as its floating-point original tends to  *)
(* it.                                                                     *)
(*                                                                         *)
(* A double has 53 significant bits.  Near the origin the doubles lie far  *)
(* denser than 1/UNIT and the fixed-point grid stands for them.  From 2^53 *)
(* to 2^54 they are the even integers, and a sum is stored as the nearest  *)
(* of them.  The x coordinates of a run are held either way: ulp is the    *)
(* spacing, in 1/UNIT, of the doubles that hold them, and an x coordinate  *)
(* counts spacings (from the origin, or from 2^53).                        *)
(***************************************************************************)
EXTENDS Integers, Sequences, FiniteSets, TLC

UNIT == 10 * 10 * 10
CH == 2 * 255
DUNIT == 100 * CH

\* The spacing of the doubles in [2^53, 2^54): two world units.
CoarseUlp == 2 * UNIT

(***************************************************************************)
(* Bounds of the model.                                                    *)
(***************************************************************************)
MaxVoxels == 2
MaxCmds == 3
MaxMatchVoxels == 3
MaxMatchTargets == 3
MaxElapsedMs == 400

(***************************************************************************)
(* src/utils/voxelConstants (CONFIG.FLOOR_Y, COLORS.GREEN, COLORS.WOOD).   *)
(***************************************************************************)
FLOOR_Y == -12
COLORS_GREEN == 2263842
COLORS_WOOD == 3878703

RED == 255 * 65536
LIME == 255 * 256

FloorTop == FLOOR_Y * UNIT + UNIT \div 2

(***************************************************************************)
(* Arithmetic helpers.                                                     *)
(***************************************************************************)
Max(a, b) == IF a >= b THEN a ELSE b
Min(a, b) == IF a <= b THEN a ELSE b

\* a * (num / den), truncated toward zero.
Scaled(a, num, den) ==
    IF a * num >= 0 THEN (a * num) \div den ELSE -((-(a * num)) \div den)

RECURSIVE SqrtBetween(_, _, _)
SqrtBetween(n, lo, hi) ==
    IF lo >= hi THEN lo
    ELSE LET mid == (lo + hi + 1) \div 2
         IN  IF mid * mid <= n THEN SqrtBetween(n, mid, hi)
             ELSE SqrtBetween(n, lo, mid - 1)

\* floor of the square root (Math.sqrt on the scaled sum of squares).
Sqrt(n) == SqrtBetween(n, 0, 46340)

(***************************************************************************)
(* THREE.Color as the engine uses it.                                      *)
(***************************************************************************)
\* new THREE.Color(hex): the three bytes of hex as channel intensities.  The
\* bytes 0 and 255 give 0 and 1 whether or not three.js converts the colour
\* to its linear working space.
Color(hex) ==
    [r |-> ((hex \div 65536) % 256) * 2,
     g |-> ((hex \div 256) % 256) * 2,
     b |-> (hex % 256) * 2]

\* One channel of c.offsetHSL(0, 0, dl): hue and saturation kept, lightness
\* moved by dl and clamped to [0, 1].
ShiftedChannel(c, ch, dl) ==
    LET mx == Max(c.r, Max(c.g, c.b))
        mn == Min(c.r, Min(c.g, c.b))
        sum == mx + mn
        delta == mx - mn
        l2 == Max(0, Min(2 * CH, sum + 2 * dl))
        sden == IF sum <= CH THEN sum ELSE 2 * CH - sum
        w == IF l2 <= CH THEN l2 ELSE 2 * CH - l2
    IN  IF delta = 0 THEN l2 \div 2
        ELSE (l2 * sden - w * delta + 2 * w * (ch - mn) + sden) \div (2 * sden)

offsetHSL(c, dl) ==
    [r |-> ShiftedChannel(c, c.r, dl),
     g |-> ShiftedChannel(c, c.g, dl),
     b |-> ShiftedChannel(c, c.b, dl)]

(***************************************************************************)
(* JSON texts.  A text either parses to an array or does not; an element   *)
(* of the array is an object or null; a member of an object is absent, or  *)
(* null, a number, a number too large for a double (which JSON.parse reads *)
(* as Infinity) or a string, held as a sequence of characters.             *)
(***************************************************************************)
JNone == [t |-> "none", n |-> 0, s |-> << >>]
JNull == [t |-> "null", n |-> 0, s |-> << >>]
JInf == [t |-> "inf", n |-> 0, s |-> << >>]
JNaN == [t |-> "nan", n |-> 0, s |-> << >>]
JNum(n) == [t |-> "num", n |-> n, s |-> << >>]
JStr(s) == [t |-> "str", n |-> 0, s |-> s]

\* useState(''): the empty text, which JSON.parse refuses.
NoJson == [isArray |-> FALSE, items |-> << >>]

VARIABLES
    state,            \* this.state
    voxels,           \* this.voxels
    rebuildTargets,   \* this.rebuildTargets
    elapsed,          \* Date.now() - this.rebuildStartTime, capped
    appState,         \* React state written by onStateChange
    voxelCount,       \* React state written by onCountChange
    op,               \* the operation that ran last
    fired,            \* the callbacks that operation invoked
    targetModel,      \* argument of the last accepted rebuild()
    picks,            \* bestIdx of each target of that rebuild(), in order
    cmds,             \* number of commands issued so far
    ulp,              \* spacing of the doubles holding the x coordinates
    jsonData          \* the text in the JSON dialog: exported, or submitted for import

vars == <<state, voxels, rebuildTargets, elapsed, appState, voxelCount,
          op, fired, targetModel, picks, cmds, ulp, jsonData>>

\* position.x after position.x += d: the double nearest to the sum, the even
\* one of two equally near.  x counts spacings, d is in 1/UNIT.
Stored(x, d) ==
    LET q == d \div ulp
        r == d % ulp
    IN  IF 2 * r < ulp THEN x + q
        ELSE IF 2 * r > ulp THEN x + q + 1
        ELSE IF (x + q) % 2 = 0 THEN x + q ELSE x + q + 1

\* createVoxels: data.map((v, i) => ...), jit[i] the lightness jitter drawn
\* for the i-th point.
createVoxels(data, jit) ==
    [i \in 1..Len(data) |->
        [id |-> i - 1,
         x |-> data[i].x, y |-> data[i].y, z |-> data[i].z,
         color |-> offsetHSL(Color(data[i].color), jit[i]),
         vx |-> 0, vy |-> 0, vz |-> 0, rx |-> 0, ry |-> 0, rz |-> 0,
         rvx |-> 0, rvy |-> 0, rvz |-> 0]]


(***************************************************************************)
(* dismantle()                                                             *)
(***************************************************************************)
\* Variant: dismantle() without its guard.
dismantleNeverIgnored == FALSE

\* dismantle() returns at once unless the state is STABLE.
dismantleIgnored == state # "STABLE"

\* Variant: the explosion builds the voxel anew and numbers it from its
\* impulse instead of keeping its id.
ExplodeRenumbered(v, imp) ==
    [v EXCEPT !.vx = imp.vx, !.vy = imp.vy, !.vz = imp.vz,
              !.rvx = imp.rvx, !.rvy = imp.rvy, !.rvz = imp.rvz,
              !.id = 0]

\* The explosion impulse of one voxel; imp holds the six random draws.
Explode(v, imp) ==
    [v EXCEPT !.vx = imp.vx, !.vy = imp.vy, !.vz = imp.vz,
              !.rvx = imp.rvx, !.rvy = imp.rvy, !.rvz = imp.rvz]

(***************************************************************************)
(* rebuild(): the greedy colour matcher.                                   *)
(***************************************************************************)
\* rebuild() returns at once when the state is REBUILDING.
rebuildIgnored == state = "REBUILDING"

getColorDist(c1, hex2) ==
    LET c2 == Color(hex2)
        r == (c1.r - c2.r) * 30
        g == (c1.g - c2.g) * 59
        b == (c1.b - c2.b) * 11
    IN  Sqrt(r * r + g * g + b * b)

isLeafOrWood(c) == (c.g * 10 > 4 * CH) \/ (c.r * 4 < CH /\ c.b * 4 < CH)

targetIsGreen(target) ==
    target.color = COLORS_GREEN \/ target.color = COLORS_WOOD

penalty(c, target) ==
    IF isLeafOrWood(c) /\ ~targetIsGreen(target) THEN 100 * DUNIT ELSE 0

\* d < 0.01: the scan stops at this candidate.
ExactMatch(d) == d * 100 < DUNIT

\* The for loop over available, from index i on; bestIdx 0 stands for -1.
RECURSIVE ScanFrom(_, _, _, _, _)
ScanFrom(i, bestDist, bestIdx, available, target) ==
    IF i > Len(available) THEN bestIdx
    ELSE IF available[i].taken
         THEN ScanFrom(i + 1, bestDist, bestIdx, available, target)
    ELSE LET d == getColorDist(available[i].color, target.color)
             pen == penalty(available[i].color, target)
         IN  IF d + pen < bestDist
             THEN IF ExactMatch(d) THEN i
                  ELSE ScanFrom(i + 1, d + pen, i, available, target)
             ELSE ScanFrom(i + 1, bestDist, bestIdx, available, target)

BestIdx(available, target) == ScanFrom(1, 9999 * DUNIT, 0, available, target)

\* Variant: the chosen entry is not marked taken.
MarkTakenSkipped(available, bestIdx) == available

MarkTaken(available, bestIdx) == [available EXCEPT ![bestIdx].taken = TRUE]

\* delay = max(0, (target.y - FLOOR_Y) / 15) * 800, in 1/75 ms.
Delay(y) == (Max(0, y - FLOOR_Y * UNIT) * 800 * 75) \div (15 * UNIT)

Mapping(target) ==
    [x |-> target.x, y |-> target.y, z |-> target.z,
     delay |-> Delay(target.y), isRubble |-> FALSE]

\* Variant: rubble is given the stagger delay of its height.
RubbleDelayed(v) ==
    [x |-> v.x, y |-> v.y, z |-> v.z, delay |-> Delay(v.y), isRubble |-> TRUE]

Rubble(v) == [x |-> v.x, y |-> v.y, z |-> v.z, delay |-> 0, isRubble |-> TRUE]

\* targetModel.forEach from the k-th target on.  mappings is defined on the
\* voxel indices that already hold an entry (the others are null); chosen
\* collects bestIdx target by target.
RECURSIVE MatchFrom(_, _, _, _, _)
MatchFrom(k, available, mappings, chosen, tm) ==
    IF k > Len(tm) THEN [mappings |-> mappings, picks |-> chosen]
    ELSE LET bestIdx == BestIdx(available, tm[k])
         IN  IF bestIdx # 0
             THEN MatchFrom(k + 1, MarkTaken(available, bestIdx),
                     [i \in DOMAIN mappings \cup {available[bestIdx].index} |->
                        IF i = available[bestIdx].index THEN Mapping(tm[k])
                        ELSE mappings[i]],
                     Append(chosen, bestIdx), tm)
             ELSE MatchFrom(k + 1, available, mappings, Append(chosen, 0), tm)

Available(vs) ==
    [i \in 1..Len(vs) |-> [index |-> i, color |-> vs[i].color, taken |-> FALSE]]

Match(vs, tm) == MatchFrom(1, Available(vs), <<>>, <<>>, tm)

\* Variant: the voxels left without an entry get none.
FillRubbleSkipped(vs, mappings) == mappings

\* The loop that turns every voxel left without an entry into rubble.
FillRubble(vs, mappings) ==
    [i \in 1..Len(vs) |->
        IF i \in DOMAIN mappings THEN mappings[i] ELSE Rubble(vs[i])]

(***************************************************************************)
(* updatePhysics()                                                         *)
(***************************************************************************)
\* Variant: the bounce without the position correction.
FloorCollisionNoClamp(v) ==
    IF v.y < FloorTop
    THEN [v EXCEPT !.vy = Scaled(v.vy, -5, 10),
                   !.vx = Scaled(v.vx, 9, 10), !.vz = Scaled(v.vz, 9, 10),
                   !.rvx = Scaled(v.rvx, 8, 10), !.rvy = Scaled(v.rvy, 8, 10),
                   !.rvz = Scaled(v.rvz, 8, 10)]
    ELSE v

\* Floor collision of the dismantling branch.
FloorCollision(v) ==
    IF v.y < FloorTop
    THEN [v EXCEPT !.y = FloorTop,
                   !.vy = Scaled(v.vy, -5, 10),
                   !.vx = Scaled(v.vx, 9, 10), !.vz = Scaled(v.vz, 9, 10),
                   !.rvx = Scaled(v.rvx, 8, 10), !.rvy = Scaled(v.rvy, 8, 10),
                   !.rvz = Scaled(v.rvz, 8, 10)]
    ELSE v

\* One voxel of the dismantling branch: gravity, integration, collision.
DismantlingStep(v) ==
    LET vy1 == v.vy - Scaled(UNIT, 25, 1000)
    IN  FloorCollision([v EXCEPT !.vy = vy1,
                                 !.x = Stored(v.x, v.vx), !.y = v.y + vy1, !.z = v.z + v.vz,
                                 !.rx = v.rx + v.rvx, !.ry = v.ry + v.rvy,
                                 !.rz = v.rz + v.rvz])

\* The voxel after the easing assignments of the rebuilding branch.
Eased(v, t) ==
    [v EXCEPT !.x = Stored(v.x, Scaled((t.x - v.x) * ulp, 12, 100)),
              !.y = v.y + Scaled(t.y - v.y, 12, 100),
              !.z = v.z + Scaled(t.z - v.z, 12, 100),
              !.rx = v.rx + Scaled(0 - v.rx, 12, 100),
              !.ry = v.ry + Scaled(0 - v.ry, 12, 100),
              !.rz = v.rz + Scaled(0 - v.rz, 12, 100)]

\* (t.x - v.x) ** 2 + (t.y - v.y) ** 2 + (t.z - v.z) ** 2 > 0.01
Far(v, t) ==
    LET dx == (t.x - v.x) * ulp
    IN  dx * dx + (t.y - v.y) * (t.y - v.y) + (t.z - v.z) * (t.z - v.z)
            > (UNIT * UNIT) \div 100

Snapped(v, t) ==
    [v EXCEPT !.x = t.x, !.y = t.y, !.z = t.z, !.rx = 0, !.ry = 0, !.rz = 0]

\* Variant: the release test the wrong way round.
NotReleasedInverted(el, t) == el * 75 > t.delay

\* elapsed < t.delay
NotReleased(el, t) == el * 75 < t.delay

\* Variant: rubble keeps falling under the physics of the dismantling
\* branch.
RebuildingStepRubbleFalls(v, t, el) ==
    IF t.isRubble THEN [v |-> DismantlingStep(v), done |-> TRUE]
    ELSE IF NotReleased(el, t) THEN [v |-> v, done |-> FALSE]
    ELSE LET e == Eased(v, t)
         IN  IF Far(e, t) THEN [v |-> e, done |-> FALSE]
             ELSE [v |-> Snapped(e, t), done |-> TRUE]

\* Variant: a voxel still waiting for its release does not clear allDone.
RebuildingStepWaitingDone(v, t, el) ==
    IF t.isRubble THEN [v |-> v, done |-> TRUE]
    ELSE IF NotReleased(el, t) THEN [v |-> v, done |-> TRUE]
    ELSE LET e == Eased(v, t)
         IN  IF Far(e, t) THEN [v |-> e, done |-> FALSE]
             ELSE [v |-> Snapped(e, t), done |-> TRUE]

\* One voxel of the rebuilding branch: the voxel afterwards, and whether it
\* left allDone alone.
RebuildingStep(v, t, el) ==
    IF t.isRubble THEN [v |-> v, done |-> TRUE]
    ELSE IF NotReleased(el, t) THEN [v |-> v, done |-> FALSE]
    ELSE LET e == Eased(v, t)
         IN  IF Far(e, t) THEN [v |-> e, done |-> FALSE]
             ELSE [v |-> Snapped(e, t), done |-> TRUE]

\* Variant: the dismantling branch ends the phase once every voxel lies on
\* the floor without sliding or turning.
StateAfterDismantlingSettled(vs) ==
    IF \A i \in 1..Len(vs) :
          /\ vs[i].y = FloorTop /\ vs[i].vx = 0 /\ vs[i].vz = 0
          /\ vs[i].rvx = 0 /\ vs[i].rvy = 0 /\ vs[i].rvz = 0
    THEN "STABLE" ELSE "DISMANTLING"

\* this.state after the dismantling branch, which never assigns it; vs are
\* the voxels it leaves.
StateAfterDismantling(vs) == "DISMANTLING"

\* allDone after the forEach of the rebuilding branch.
AllDone(vs, ts, el) ==
    \A i \in 1..Len(vs) : RebuildingStep(vs[i], ts[i], el).done


(***************************************************************************)
(* Inputs of the lifecycle specification.                                  *)
(***************************************************************************)
\* A point below the floor and a point half a unit above its resting height.
PointLow == [x |-> 0, y |-> -13 * UNIT, z |-> 0, color |-> RED]
PointHigh == [x |-> UNIT, y |-> -11 * UNIT, z |-> 0, color |-> LIME]

\* The sequence a, b, a, ... of length n.
Alternating(a, b, n) == [i \in 1..n |-> IF i % 2 = 1 THEN a ELSE b]

Models ==
    {Alternating(PointLow, PointHigh, n) : n \in 0..MaxVoxels}
        \cup {Alternating(PointHigh, PointLow, n) : n \in 0..MaxVoxels}

\* (Math.random() * 0.1) - 0.05 lies in [-0.05, 0.05).
Jitters == {12}

\* vx, vz in [-0.4, 0.4), vy in [0, 0.5), rvx, rvy, rvz in [-0.1, 0.1).
ImpulseUp == [vx |-> 4, vy |-> 60, vz |-> 0, rvx |-> 5, rvy |-> 0, rvz |-> 0]
ImpulseFlat == [vx |-> 0, vy |-> 0, vz |-> -3, rvx |-> 0, rvy |-> 0, rvz |-> -4]

Impulses(n) ==
    {Alternating(ImpulseUp, ImpulseFlat, n), Alternating(ImpulseFlat, ImpulseUp, n)}

TargetNear == [x |-> 0, y |-> -11 * UNIT, z |-> 0, color |-> RED]
TargetHigh == [x |-> UNIT, y |-> -10 * UNIT, z |-> UNIT, color |-> LIME]

TargetModels == {<< >>, <<TargetNear>>, <<TargetHigh, TargetNear>>}

\* Milliseconds between two frames.
FrameSteps == {100}

(***************************************************************************)
(* The operations.                                                         *)
(***************************************************************************)
Init ==
    /\ state = "STABLE"
    /\ voxels = << >>
    /\ rebuildTargets = << >>
    /\ elapsed = MaxElapsedMs
    /\ appState = "STABLE"
    /\ voxelCount = 0
    /\ op = "new"
    /\ fired = << >>
    /\ targetModel = << >>
    /\ picks = << >>
    /\ cmds = 0
    /\ ulp = 1
    /\ jsonData = NoJson

\* Variant: loadInitialModel without the state reset.
StateAfterLoadKept == state

\* this.state = AppState.STABLE in loadInitialModel.
StateAfterLoad == "STABLE"

loadInitialModel(data, jit) ==
    /\ cmds < MaxCmds
    /\ cmds' = cmds + 1
    /\ voxels' = createVoxels(data, jit)
    /\ voxelCount' = Len(voxels')
    /\ state' = StateAfterLoad
    /\ appState' = state'
    /\ op' = "load"
    /\ fired' = <<"count", "state">>
    /\ UNCHANGED <<rebuildTargets, elapsed, targetModel, picks, ulp, jsonData>>

dismantle(imps) ==
    /\ cmds < MaxCmds
    /\ cmds' = cmds + 1
    /\ op' = "dismantle"
    /\ UNCHANGED <<ulp, jsonData>>
    /\ IF dismantleIgnored
       THEN /\ fired' = << >>
            /\ UNCHANGED <<state, voxels, rebuildTargets, elapsed, appState,
                           voxelCount, targetModel, picks>>
       ELSE /\ state' = "DISMANTLING"
            /\ appState' = state'
            /\ fired' = <<"state">>
            /\ voxels' = [i \in 1..Len(voxels) |-> Explode(voxels[i], imps[i])]
            /\ UNCHANGED <<rebuildTargets, elapsed, voxelCount, targetModel, picks>>

rebuild(tm) ==
    /\ cmds < MaxCmds
    /\ cmds' = cmds + 1
    /\ op' = "rebuild"
    /\ UNCHANGED <<ulp, jsonData>>
    /\ IF rebuildIgnored
       THEN /\ fired' = << >>
            /\ UNCHANGED <<state, voxels, rebuildTargets, elapsed, appState,
                           voxelCount, targetModel, picks>>
       ELSE /\ LET m == Match(voxels, tm)
               IN  /\ rebuildTargets' = FillRubble(voxels, m.mappings)
                   /\ picks' = m.picks
            /\ targetModel' = tm
            /\ elapsed' = 0
            /\ state' = "REBUILDING"
            /\ appState' = state'
            /\ fired' = <<"state">>
            /\ UNCHANGED <<voxels, voxelCount>>

\* One frame: animate() calls updatePhysics(); dt milliseconds have passed
\* since the previous frame.
updatePhysics(dt) ==
    LET el == Min(MaxElapsedMs, elapsed + dt)
    IN  /\ op' = "tick"
        /\ elapsed' = el
        /\ UNCHANGED <<rebuildTargets, voxelCount, targetModel, picks, cmds, ulp,
                       jsonData>>
        /\ IF state = "DISMANTLING"
           THEN /\ voxels' = [i \in 1..Len(voxels) |-> DismantlingStep(voxels[i])]
                /\ state' = StateAfterDismantling(voxels')
                /\ fired' = << >>
                /\ UNCHANGED appState
           ELSE IF state = "REBUILDING"
           THEN /\ voxels' = [i \in 1..Len(voxels) |->
                                RebuildingStep(voxels[i], rebuildTargets[i], el).v]
                /\ IF AllDone(voxels, rebuildTargets, el)
                   THEN /\ state' = "STABLE"
                        /\ appState' = state'
                        /\ fired' = <<"state">>
                   ELSE /\ fired' = << >>
                        /\ UNCHANGED <<state, appState>>
           ELSE /\ fired' = << >>
                /\ UNCHANGED <<state, voxels, appState>>

LoadCall == \E data \in Models : \E jit \in [1..Len(data) -> Jitters] :
                loadInitialModel(data, jit)
DismantleCall == \E imps \in Impulses(Len(voxels)) : dismantle(imps)
RebuildCall == \E tm \in TargetModels : rebuild(tm)
Tick == \E dt \in FrameSteps : updatePhysics(dt)

Next == LoadCall \/ DismantleCall \/ RebuildCall \/ Tick

Spec == Init /\ [][Next]_vars


(***************************************************************************)
(* The matcher on its own: rebuild() applied to freshly loaded models over *)
(* a palette of colours, lightness jitters included.                       *)
(***************************************************************************)
SeqsUpTo(S, n) == UNION {[1..k -> S] : k \in 0..n}

\* The loaded points: a colour and the lightness jitter drawn for it.  The
\* jitter 2 leaves the colour within 0.01 of the original, 0 leaves it as it
\* is; -25 is the largest darkening.
MatchVoxelKinds ==
    {[color |-> RED, jit |-> -25], [color |-> LIME, jit |-> 2],
     [color |-> LIME, jit |-> 0], [color |-> COLORS_GREEN, jit |-> 2]}

MatchTargetColors == {RED, LIME, COLORS_GREEN}

\* The i-th loaded point stands on the floor at x = i.
MatchPoint(i, hex) == [x |-> i * UNIT, y |-> FloorTop, z |-> 0, color |-> hex]

\* The k-th target is k units above the floor, at z = 5.
MatchTarget(k, hex) ==
    [x |-> 0, y |-> (FLOOR_Y + k) * UNIT, z |-> 5 * UNIT, color |-> hex]

MatchTargetModels ==
    {[k \in DOMAIN cs |-> MatchTarget(k, cs[k])] :
        cs \in SeqsUpTo(MatchTargetColors, MaxMatchTargets)}

\* The engine right after loadInitialModel(data), with one command left.
InitMatch ==
    \E kinds \in SeqsUpTo(MatchVoxelKinds, MaxMatchVoxels) :
        /\ state = "STABLE"
        /\ voxels = createVoxels([i \in DOMAIN kinds |-> MatchPoint(i, kinds[i].color)],
                                 [i \in DOMAIN kinds |-> kinds[i].jit])
        /\ rebuildTargets = << >>
        /\ elapsed = MaxElapsedMs
        /\ appState = "STABLE"
        /\ voxelCount = Len(kinds)
        /\ op = "load"
        /\ fired = <<"count", "state">>
        /\ targetModel = << >>
        /\ picks = << >>
        /\ cmds = MaxCmds - 1
        /\ ulp = 1
        /\ jsonData = NoJson

RebuildMatchCall == \E tm \in MatchTargetModels : rebuild(tm)

NextMatch == RebuildMatchCall

SpecMatch == InitMatch /\ [][NextMatch]_vars


(***************************************************************************)
(* Properties.                                                             *)
(***************************************************************************)
\* The last operation was a rebuild() that went through.
RebuildAccepted == op = "rebuild" /\ fired = <<"state">>

\* c is the stored colour of a point loaded with colour hex.
IsJitterOf(c, hex) == \E j \in -25..25 : c = offsetHSL(Color(hex), j)

SamePlace(t, p) == t.x = p.x /\ t.y = p.y /\ t.z = p.z

NonRubble == {i \in 1..Len(rebuildTargets) : ~rebuildTargets[i].isRubble}
RubbleSet == {i \in 1..Len(rebuildTargets) : rebuildTargets[i].isRubble}

\* C1: after every tick executed while the state is DISMANTLING, every
\* voxel's y-position is at least FLOOR_Y + 0.5.
C1_AboveFloor ==
    (op = "tick" /\ state = "DISMANTLING") =>
        \A i \in 1..Len(voxels) : voxels[i].y >= FloorTop

\* A voxel loaded below the floor has been put on it by a dismantling tick
\* and is on its way up.
C1_Witness ==
    /\ op = "tick" /\ state = "DISMANTLING"
    /\ \E i \in 1..Len(voxels) : voxels[i].y = FloorTop /\ voxels[i].vy > 0

\* C2: with voxels loaded as [red, green] and targets [green, red],
\* rebuild() gives the green target's position to the green voxel and the
\* red target's position to the red voxel.
C2_ExactColourPairing ==
    (/\ RebuildAccepted
     /\ Len(voxels) = 2 /\ Len(targetModel) = 2
     /\ IsJitterOf(voxels[1].color, RED) /\ IsJitterOf(voxels[2].color, LIME)
     /\ targetModel[1].color = LIME /\ targetModel[2].color = RED)
    => /\ SamePlace(rebuildTargets[2], targetModel[1])
       /\ SamePlace(rebuildTargets[1], targetModel[2])

\* d + penalty of voxel i for a target.
Cost(i, target) ==
    getColorDist(voxels[i].color, target.color) + penalty(voxels[i].color, target)

\* The voxels not yet taken when the k-th target is processed.
Untaken(k) == {i \in 1..Len(voxels) : \A j \in 1..(k - 1) : picks[j] # i}

\* C3: for each target, in input order, the voxel paired with it has the
\* minimum of colour distance + penalty among the voxels still untaken.
C3_PairedIsMinimum ==
    RebuildAccepted =>
        \A k \in 1..Len(targetModel) :
            picks[k] # 0 =>
                \A i \in Untaken(k) :
                    Cost(picks[k], targetModel[k]) <= Cost(i, targetModel[k])

\* C4: with fewer targets than voxels, rebuild() yields exactly M
\* non-rubble and N - M rubble assignments, and every rubble assignment has
\* delay 0 and the voxel's own position as its target.
C4_SurplusVoxels ==
    (RebuildAccepted /\ Len(targetModel) < Len(voxels)) =>
        /\ Len(rebuildTargets) = Len(voxels)
        /\ Cardinality(NonRubble) = Len(targetModel)
        /\ Cardinality(RubbleSet) = Len(voxels) - Len(targetModel)
        /\ \A i \in RubbleSet :
              rebuildTargets[i].delay = 0 /\ SamePlace(rebuildTargets[i], voxels[i])

\* Three voxels and one target: one assignment and two pieces of rubble.
C4_Witness ==
    /\ RebuildAccepted
    /\ Len(voxels) = 3 /\ Len(targetModel) = 1
    /\ Cardinality(RubbleSet) = 2

\* C5: with more targets than voxels, rebuild() produces exactly one
\* assignment per voxel, none of them rubble, no voxel is given to two
\* targets, and the targets left over get no voxel.
C5_DeficitTargets ==
    (RebuildAccepted /\ Len(targetModel) > Len(voxels)) =>
        /\ Len(rebuildTargets) = Len(voxels)
        /\ RubbleSet = {}
        /\ \A j, k \in 1..Len(picks) : (j # k /\ picks[j] # 0) => picks[j] # picks[k]
        /\ \A k \in 1..Len(picks) : (picks[k] = 0) <=> (k > Len(voxels))
        /\ \A k \in 1..Len(voxels) :
              rebuildTargets[picks[k]] = Mapping(targetModel[k])

\* Two voxels and three targets: the third target is dropped.
C5_Witness ==
    /\ RebuildAccepted
    /\ Len(voxels) = 2 /\ Len(targetModel) = 3
    /\ picks[3] = 0 /\ Len(rebuildTargets) = 2


Still(v) == v.vx = 0 /\ v.vy = 0 /\ v.vz = 0 /\ v.rvx = 0 /\ v.rvy = 0 /\ v.rvz = 0
Upright(v) == v.rx = 0 /\ v.ry = 0 /\ v.rz = 0

\* C6: dismantle() outside STABLE and rebuild() during REBUILDING leave the
\* state, every voxel, the assignment array and the rebuild start time as
\* they were and notify nobody.
C6_IgnoredCommands ==
    [][((cmds' = cmds + 1)
        /\ (\/ (op' = "dismantle" /\ state # "STABLE")
            \/ (op' = "rebuild" /\ state = "REBUILDING")))
       => (/\ state' = state
           /\ voxels' = voxels
           /\ rebuildTargets' = rebuildTargets
           /\ elapsed' = elapsed
           /\ appState' = appState
           /\ fired' = << >>)]_vars

\* dismantle() was called during a rebuild with a voxel still in flight.
C6_Witness ==
    /\ op = "dismantle" /\ fired = << >> /\ state = "REBUILDING"
    /\ \E i \in NonRubble : ~SamePlace(rebuildTargets[i], voxels[i])

\* C7: loadModel in any state leaves the engine STABLE with every voxel at
\* rest, upright and numbered 0..N-1; afterwards the state becomes
\* REBUILDING only through rebuild(), and a tick in STABLE moves nothing.
C7_LoadResets ==
    [][/\ (op' = "load" /\ cmds' = cmds + 1) =>
            /\ state' = "STABLE"
            /\ \A i \in 1..Len(voxels') :
                  Still(voxels'[i]) /\ Upright(voxels'[i]) /\ voxels'[i].id = i - 1
       /\ (state' = "REBUILDING" /\ state # "REBUILDING") => op' = "rebuild"
       /\ (op' = "tick" /\ state = "STABLE") => voxels' = voxels]_vars

\* A tick in STABLE with an assignment left over from before the load that
\* some voxel has not reached.
C7_Witness ==
    /\ op = "tick" /\ state = "STABLE"
    /\ \E i \in NonRubble :
          i <= Len(voxels) /\ ~SamePlace(rebuildTargets[i], voxels[i])

\* C8: the tick that turns REBUILDING into STABLE leaves every non-rubble
\* voxel released, exactly on its target and upright.
C8_StableOnlyWhenArrived ==
    [][(state = "REBUILDING" /\ state' = "STABLE" /\ op' = "tick") =>
          \A i \in 1..Len(voxels') :
              ~rebuildTargets[i].isRubble =>
                  /\ ~NotReleased(elapsed', rebuildTargets[i])
                  /\ SamePlace(voxels'[i], rebuildTargets[i])
                  /\ Upright(voxels'[i])]_vars

\* A rebuild completed by a tick, with a voxel that had to wait for its
\* release and one that did not.
C8_Witness ==
    /\ op = "tick" /\ state = "STABLE" /\ fired = <<"state">>
    /\ \E i, j \in NonRubble :
          /\ rebuildTargets[i].delay > 100 * 75
          /\ rebuildTargets[j].delay < 100 * 75
          /\ SamePlace(voxels[i], rebuildTargets[i])

\* C9: from any REBUILDING state the engine eventually reaches STABLE.
C9_RebuildTerminates == (state = "REBUILDING") ~> (state = "STABLE")

\* C10: the state leaves DISMANTLING only through rebuild() or loadModel().
C10_DismantlingPersists ==
    [][(state = "DISMANTLING" /\ state' # "DISMANTLING") =>
          op' \in {"rebuild", "load"}]_vars

\* A tick in DISMANTLING with every voxel lying on the floor, no longer
\* sliding or turning.
C10_Witness ==
    /\ op = "tick" /\ state = "DISMANTLING" /\ Len(voxels) >= 1
    /\ \A i \in 1..Len(voxels) :
          /\ voxels[i].y = FloorTop
          /\ voxels[i].vx = 0 /\ voxels[i].vz = 0
          /\ voxels[i].rvx = 0 /\ voxels[i].rvy = 0 /\ voxels[i].rvz = 0

(***************************************************************************)
(* The rebuild animation under a frame driver that keeps calling           *)
(* updatePhysics(): a loaded model, then dismantle() and rebuild() calls   *)
(* and frames, with no further load.  The model and the targets lie near   *)
(* the origin, or have their x coordinates between 2^53 and 2^54.          *)
(***************************************************************************)
\* A point ten world units beyond 2^53, and a target at 2^53.
PointFar == [x |-> 5, y |-> -11 * UNIT, z |-> 0, color |-> RED]
TargetFar == [x |-> 0, y |-> -11 * UNIT, z |-> 0, color |-> RED]

FarModels == {<<PointFar>>}
FarTargetModels == {<<TargetFar>>}

InitLive ==
    \E u \in {1, CoarseUlp} :
    \E data \in (IF u = 1 THEN Models ELSE FarModels) :
    \E jit \in [1..Len(data) -> Jitters] :
        /\ state = "STABLE"
        /\ voxels = createVoxels(data, jit)
        /\ rebuildTargets = << >>
        /\ elapsed = MaxElapsedMs
        /\ appState = "STABLE"
        /\ voxelCount = Len(data)
        /\ op = "load"
        /\ fired = <<"count", "state">>
        /\ targetModel = << >>
        /\ picks = << >>
        /\ cmds = 1
        /\ ulp = u
        /\ jsonData = NoJson

RebuildLiveCall ==
    \E tm \in (IF ulp = 1 THEN TargetModels ELSE FarTargetModels) : rebuild(tm)

NextLive == DismantleCall \/ RebuildLiveCall \/ Tick

SpecLive == InitLive /\ [][NextLive]_vars /\ WF_vars(Tick)


(***************************************************************************)
(* getJsonData() and handleJsonImport().                                   *)
(***************************************************************************)
HexDigits ==
    <<"0", "1", "2", "3", "4", "5", "6", "7", "8", "9", "a", "b", "c", "d", "e", "f">>
HexDigitsUpper ==
    <<"0", "1", "2", "3", "4", "5", "6", "7", "8", "9", "A", "B", "C", "D", "E", "F">>

\* The value of a character as a digit of the radix, -1 if it is none.
DigitValue(ch, radix) ==
    IF \E k \in 1..radix : HexDigits[k] = ch \/ HexDigitsUpper[k] = ch
    THEN (CHOOSE k \in 1..radix : HexDigits[k] = ch \/ HexDigitsUpper[k] = ch) - 1
    ELSE -1

\* The digits of s from position i on, up to the first character that is
\* not a digit of the radix; acc is the value so far, seen the number of
\* digits read.
RECURSIVE DigitsFrom(_, _, _, _, _)
DigitsFrom(s, i, radix, acc, seen) ==
    IF i > Len(s) \/ DigitValue(s[i], radix) < 0
    THEN [value |-> acc, seen |-> seen, rest |-> Len(s) - i + 1]
    ELSE DigitsFrom(s, i + 1, radix, acc * radix + DigitValue(s[i], radix), seen + 1)

\* parseInt(s, 16) of a string without blanks, sign or 0x prefix: the
\* leading hexadecimal digits, NaN if there is none.
parseInt16(s) ==
    LET d == DigitsFrom(s, 1, 16, 0, 0)
    IN  IF d.seen = 0 THEN JNaN ELSE JNum(d.value)

\* Number(v) of a member: a string of decimal digits is its value (in
\* 1/UNIT), the empty string and null are 0, any other string and an
\* absent member are NaN.
Number(v) ==
    IF v.t = "num" \/ v.t = "inf" THEN v
    ELSE IF v.t = "null" THEN JNum(0)
    ELSE IF v.t = "none" THEN JNaN
    ELSE LET d == DigitsFrom(v.s, 1, 10, 0, 0)
         IN  IF d.rest = 0 THEN JNum(d.value * UNIT) ELSE JNaN

\* JavaScript truthiness of a member or number.
Truthy(v) ==
    \/ v.t = "inf"
    \/ v.t = "num" /\ v.n # 0
    \/ v.t = "str" /\ v.s # << >>

\* a || b
OrElse(a, b) == IF Truthy(a) THEN a ELSE b

DEFAULT_GRAY == 13421772

\* colorInt of one element after the if / else if of handleJsonImport.
colorInt(v) ==
    LET colorVal == OrElse(v.c, v.color)
    IN  IF colorVal.t = "str"
        THEN parseInt16(IF colorVal.s # << >> /\ colorVal.s[1] = "#"
                        THEN Tail(colorVal.s) ELSE colorVal.s)
        ELSE IF colorVal.t = "num" \/ colorVal.t = "inf" THEN colorVal
        ELSE JNum(DEFAULT_GRAY)

\* The number new THREE.Color(hex) takes its bytes from: setHex computes
\* Math.floor(hex) >> 16 & 255 and so on, and Infinity >> 16 is 0.
HexBits(num) == IF num.t = "inf" THEN 0 ELSE num.n

\* The VoxelData that rawData.map makes of one element.  Coordinates are
\* finite in the model.
Sanitized(v) ==
    [x |-> OrElse(Number(v.x), JNum(0)).n,
     y |-> OrElse(Number(v.y), JNum(0)).n,
     z |-> OrElse(Number(v.z), JNum(0)).n,
     color |-> HexBits(IF colorInt(v).t = "nan" THEN JNum(DEFAULT_GRAY)
                       ELSE colorInt(v))]

\* JSON.parse throws or returns no array, or reading v.c throws because an
\* element is null: the catch block reports the failure.
ImportFails(text) ==
    \/ ~text.isArray
    \/ \E k \in 1..Len(text.items) : ~text.items[k].isObject

\* +x.toFixed(2): the nearest multiple of 0.01, the one farther from zero
\* of two equally near.
toFixed2(x) ==
    IF x >= 0 THEN ((x * 100 + UNIT \div 2) \div UNIT) * (UNIT \div 100)
    ELSE -(((-x * 100 + UNIT \div 2) \div UNIT) * (UNIT \div 100))

\* Math.round(channel * 255)
Byte(ch) == (ch * 255 * 2 + CH) \div (2 * CH)

\* THREE.Color.getHexString(): six hexadecimal digits.
getHexString(c) ==
    <<HexDigits[Byte(c.r) \div 16 + 1], HexDigits[(Byte(c.r) % 16) + 1],
      HexDigits[Byte(c.g) \div 16 + 1], HexDigits[(Byte(c.g) % 16) + 1],
      HexDigits[Byte(c.b) \div 16 + 1], HexDigits[(Byte(c.b) % 16) + 1]>>

\* getJsonData(): the text that JSON.stringify writes and JSON.parse reads
\* back.  The x coordinates are those of a run near the origin.
getJsonData(vs) ==
    [isArray |-> TRUE,
     items |-> [i \in 1..Len(vs) |->
        [isObject |-> TRUE,
         id |-> JNum(i - 1),
         x |-> JNum(toFixed2(vs[i].x)),
         y |-> JNum(toFixed2(vs[i].y)),
         z |-> JNum(toFixed2(vs[i].z)),
         c |-> JStr(<<"#">> \o getHexString(vs[i].color)),
         color |-> JNone]]]

\* handleShowJson: the export dialog shows the engine's JSON.
handleShowJson ==
    /\ cmds < MaxCmds
    /\ cmds' = cmds + 1
    /\ op' = "export"
    /\ jsonData' = getJsonData(voxels)
    /\ fired' = << >>
    /\ UNCHANGED <<state, voxels, rebuildTargets, elapsed, appState, voxelCount,
                   targetModel, picks, ulp>>

\* handleJsonImport(jsonStr); jit[i] is the lightness jitter that
\* createVoxels draws for the i-th element.
handleJsonImport(text, jit) ==
    /\ cmds < MaxCmds
    /\ cmds' = cmds + 1
    /\ op' = "import"
    /\ jsonData' = text
    /\ UNCHANGED <<rebuildTargets, elapsed, targetModel, picks, ulp>>
    /\ IF ImportFails(text)
       THEN /\ fired' = << >>
            /\ UNCHANGED <<state, voxels, appState, voxelCount>>
       ELSE /\ voxels' = createVoxels([k \in 1..Len(text.items) |->
                                          Sanitized(text.items[k])], jit)
            /\ voxelCount' = Len(voxels')
            /\ state' = StateAfterLoad
            /\ appState' = state'
            /\ fired' = <<"count", "state">>

(***************************************************************************)
(* Properties of the voxel array and of the rebuild animation.             *)
(***************************************************************************)
\* C11: dismantle(), rebuild() and a tick, in whatever state, leave the
\* length of the voxel array, every voxel's id and every voxel's colour as
\* they were.
C11_ArrayFixedBetweenLoads ==
    [][(op' \in {"dismantle", "rebuild", "tick"}) =>
          /\ Len(voxels') = Len(voxels)
          /\ \A i \in 1..Len(voxels) :
                /\ voxels'[i].id = voxels[i].id
                /\ voxels'[i].color = voxels[i].color]_vars

\* Two voxels that were blown apart and are flying back, the second still
\* numbered 1.
C11_Witness ==
    /\ op = "tick" /\ state = "REBUILDING" /\ Len(voxels) = 2
    /\ voxels[2].id = 1 /\ ~Still(voxels[2])
    /\ \E i \in NonRubble : ~SamePlace(rebuildTargets[i], voxels[i])

\* C14: a candidate's cost carries the +100 penalty exactly when the
\* candidate's colour is foliage/wood-like (green > 0.4, or red < 0.25 and
\* blue < 0.25) and the target's colour is not; a target of a foliage/wood-
\* like colour never brings the penalty on any candidate.
C14_PenaltyRule ==
    RebuildAccepted =>
        \A k \in 1..Len(targetModel) : \A i \in 1..Len(voxels) :
            (penalty(voxels[i].color, targetModel[k]) = 100 * DUNIT)
                <=> (/\ isLeafOrWood(voxels[i].color)
                     /\ ~isLeafOrWood(Color(targetModel[k].color)))

SamePose(v, w) ==
    /\ v.x = w.x /\ v.y = w.y /\ v.z = w.z
    /\ v.rx = w.rx /\ v.ry = w.ry /\ v.rz = w.rz

\* C15: in REBUILDING every delay is max(0, (target.y - FLOOR_Y) / 15) * 800,
\* hence non-negative and non-decreasing in the target's height; a tick
\* with elapsed < delay leaves the voxel's position and rotation alone and
\* the state REBUILDING, so that no voxel moves before the first tick with
\* elapsed >= delay.
C15_HeldUntilReleased ==
    [][(state = "REBUILDING" /\ op' = "tick") =>
          \A i \in NonRubble :
              LET t == rebuildTargets[i]
              IN  /\ t.delay * 15 * UNIT = Max(0, t.y - FLOOR_Y * UNIT) * 800 * 75
                  /\ t.delay >= 0
                  /\ \A j \in NonRubble :
                        t.y <= rebuildTargets[j].y => t.delay <= rebuildTargets[j].delay
                  /\ (elapsed' * 75 < t.delay) =>
                        (SamePose(voxels'[i], voxels[i]) /\ state' = "REBUILDING")]_vars

\* The first frame of a rebuild: the voxel bound for the higher target is
\* still held where the explosion threw it, the other one has set off.
C15_Witness ==
    /\ op = "tick" /\ state = "REBUILDING"
    /\ \E i, j \in NonRubble :
          /\ elapsed * 75 < rebuildTargets[i].delay
          /\ elapsed * 75 >= rebuildTargets[j].delay
          /\ ~Still(voxels[i])
          /\ voxels[j].y # FloorTop /\ ~SamePlace(voxels[j], rebuildTargets[j])

\* C16: no tick taken in REBUILDING changes the position or the rotation
\* of a rubble voxel, whatever velocity a dismantle left it with.
C16_RubbleStaysPut ==
    [][(state = "REBUILDING" /\ op' = "tick") =>
          \A i \in RubbleSet : SamePose(voxels'[i], voxels[i])]_vars

\* A rebuild with fewer targets than voxels interrupted a dismantle: a
\* rubble voxel hangs above the floor with the velocity it had, after a
\* frame that moved another voxel.
C16_Witness ==
    /\ op = "tick" /\ state = "REBUILDING" /\ elapsed >= 200
    /\ \E i \in RubbleSet : voxels[i].y > FloorTop /\ voxels[i].vy # 0
    /\ NonRubble # {}

\* C17: whenever the state is REBUILDING the assignment array has exactly
\* one entry, a mapping or rubble, for each index of the voxel array.
C17_OneAssignmentPerVoxel ==
    (state = "REBUILDING") =>
        /\ DOMAIN rebuildTargets = 1..Len(voxels)
        /\ \A i \in DOMAIN rebuildTargets : rebuildTargets[i].isRubble \in BOOLEAN

\* A rebuild in progress on a two-voxel model with one mapped voxel and one
\* piece of rubble, issued as the last command allowed.
C17_Witness ==
    /\ state = "REBUILDING" /\ op = "tick" /\ cmds = MaxCmds
    /\ Len(voxels) = 2
    /\ Cardinality(NonRubble) = 1 /\ Cardinality(RubbleSet) = 1

\* C19: every command and every tick leaves the state last delivered by
\* onStateChange equal to this.state and the count last delivered by
\* onCountChange equal to the length of the voxel array, and a step that
\* changes this.state calls onStateChange.
C19_CallbacksInStep ==
    [][/\ appState' = state'
       /\ voxelCount' = Len(voxels')
       /\ (state' # state) => (\E k \in 1..Len(fired') : fired'[k] = "state")]_vars

\* The frame that completed a rebuild of the two-voxel model told the
\* application so.
C19_Witness ==
    /\ op = "tick" /\ fired = <<"state">> /\ appState = "STABLE"
    /\ voxelCount = 2 /\ cmds = MaxCmds
    /\ \E i \in NonRubble : SamePlace(voxels[i], rebuildTargets[i])

(***************************************************************************)
(* Export and import of the scene as JSON.                                 *)
(***************************************************************************)
\* Points off the lattice, as an earlier import leaves them.
PointOff == [x |-> 1234, y |-> -11 * UNIT + 5, z |-> -2505, color |-> RED]
PointGray == [x |-> -UNIT, y |-> 3 * UNIT, z |-> 7, color |-> DEFAULT_GRAY]

JsonModels ==
    {Alternating(PointOff, PointGray, n) : n \in 1..MaxVoxels}
        \cup {Alternating(PointGray, PointOff, n) : n \in 1..MaxVoxels}

\* Math.random() * 0.1 - 0.05 lies in [-0.05, 0.05) and is 0 for one draw
\* in 2^52.
JsonJitters == {0, 12}

\* One element {x, y: 0, z: 0, c, color} of an imported array.
Element(x, c, color) ==
    [isObject |-> TRUE, id |-> JNone, x |-> x, y |-> JNum(0), z |-> JNum(0),
     c |-> c, color |-> color]

ElementNull ==
    [isObject |-> FALSE, id |-> JNone, x |-> JNone, y |-> JNone, z |-> JNone,
     c |-> JNone, color |-> JNone]

ElementRed == Element(JNum(UNIT), JStr(<<"#", "f", "f", "0", "0", "0", "0">>), JNone)

Elements ==
    {ElementRed,
     Element(JNone, JNone, JStr(<<"0", "0", "F", "F", "0", "0">>)),
     Element(JStr(<<"a", "b", "c">>), JNum(255), JNone),
     Element(JNum(2 * UNIT), JNone, JNum(65280)),
     Element(JNum(0), JNum(0), JNone),
     Element(JNull, JStr(<<"z", "z", "z">>), JNone),
     Element(JNum(-UNIT), JInf, JNone),
     Element(JNum(UNIT), JNone, JNone),
     ElementNull}

\* Texts typed into the import dialog: arrays of elements, and a text that
\* is no array.
RawTexts ==
    {[isArray |-> TRUE, items |-> Alternating(e, ElementRed, n)] :
        e \in Elements, n \in 0..MaxVoxels}
        \cup {[isArray |-> FALSE, items |-> << >>]}

InitJson ==
    /\ state = "STABLE"
    /\ \E m \in JsonModels : \E jit \in [1..Len(m) -> JsonJitters] :
           voxels = createVoxels(m, jit)
    /\ rebuildTargets = << >>
    /\ elapsed = 0
    /\ appState = state
    /\ voxelCount = Len(voxels)
    /\ op = "new"
    /\ fired = <<"count", "state">>
    /\ targetModel = << >>
    /\ picks = << >>
    /\ cmds = MaxCmds - 2
    /\ ulp = 1
    /\ jsonData = NoJson

ShowJsonCall == handleShowJson

JsonImportCall ==
    \E text \in RawTexts \cup {jsonData} :
        \E jit \in [1..Len(text.items) -> JsonJitters] :
            handleJsonImport(text, jit)

NextJson == ShowJsonCall \/ JsonImportCall

SpecJson == InitJson /\ [][NextJson]_vars

\* C12: an import of the text that the export just before it wrote yields
\* as many voxels as were exported, each within 0.01 of the exported
\* voxel on every axis and of the colour that was exported for it.
C12_RoundTrip ==
    [][LET Near(a, b) == a - b <= UNIT \div 100 /\ b - a <= UNIT \div 100
       IN  (op = "export" /\ op' = "import" /\ jsonData' = jsonData) =>
              /\ Len(voxels') = Len(voxels)
              /\ \A i \in 1..Len(voxels) :
                    /\ Near(voxels'[i].x, voxels[i].x)
                    /\ Near(voxels'[i].y, voxels[i].y)
                    /\ Near(voxels'[i].z, voxels[i].z)
                    /\ <<"#">> \o getHexString(voxels'[i].color)
                           = jsonData.items[i].c.s]_vars

\* C13: an import of an array makes one voxel of every element, at the
\* element's coordinates (0 for a missing or non-numeric one) and of the
\* element's colour: the value of a '#RRGGBB' or 'RRGGBB' string or of an
\* integer in 0..0xFFFFFF, gray for an unparseable or non-finite one.
C13_ImportCoercion ==
    [][LET Given(e) == IF e.c.t # "none" THEN e.c ELSE e.color
           Digits(s) == IF s # << >> /\ s[1] = "#" THEN Tail(s) ELSE s
           IsRRGGBB(s) ==
               Len(Digits(s)) = 6 /\ \A k \in 1..6 : DigitValue(Digits(s)[k], 16) >= 0
           ColorToTake(c) ==
               IF c.t = "str" /\ IsRRGGBB(c.s)
               THEN DigitsFrom(Digits(c.s), 1, 16, 0, 0).value
               ELSE IF c.t = "num" /\ c.n >= 0 /\ c.n <= 16777215 THEN c.n
               ELSE DEFAULT_GRAY
           CoordToTake(x) == IF x.t = "num" THEN x.n ELSE 0
       IN  (op' = "import" /\ jsonData'.isArray) =>
                 /\ fired' = <<"count", "state">>
                 /\ Len(voxels') = Len(jsonData'.items)
                 /\ \A i \in 1..Len(voxels') :
                       /\ voxels'[i].x = CoordToTake(jsonData'.items[i].x)
                       /\ voxels'[i].y = CoordToTake(jsonData'.items[i].y)
                       /\ voxels'[i].z = CoordToTake(jsonData'.items[i].z)
                       /\ IsJitterOf(voxels'[i].color,
                                     ColorToTake(Given(jsonData'.items[i])))]_vars

====
